---- MODULE Spec2Model ----
(***************************************************************************)
(* State-machine model of the linked lists of too-many-linked-lists.       *)
(*                                                                         *)
(*   src/src/fourth.rs  the Rc<RefCell<Node>> doubly-linked deque          *)
(*   src/src/fifth.rs   the raw-pointer singly-linked queue                *)
(*                                                                         *)
(* Every source file is a module of its own with its own List type; the    *)
(* variable unit says which of them a behaviour exercises.                 *)
(***************************************************************************)
EXTENDS Integers, Sequences, FiniteSets

\* ------------------------------------------------------------------ bounds
MaxNodes == 3        \* node addresses the allocator can hand out
MaxElem == 2         \* element values are 1..MaxElem
MaxHandles == 2      \* peek handles (Ref / RefMut) alive at the same time
MaxLists == 3        \* third.rs List values alive at the same time

Nodes == 1..MaxNodes
Elems == 1..MaxElem
Null == 0            \* Option::None of a Link (fourth.rs), ptr::null_mut() (fifth.rs)

\* What an operation returns.
Some(v) == [tag |-> "some", val |-> v]      \* Option::Some(v), or a handle to the value v
None == [tag |-> "none", val |-> 0]         \* Option::None
Unit == [tag |-> "unit", val |-> 0]         \* ()
Panic == [tag |-> "panic", val |-> 0]       \* the call panicked (BorrowError, unwrap of None)

VARIABLES
    unit,       \* "fourth" | "fifth" | "main" | "third": the source file whose List
                \* is exercised
    pc,         \* "live" | "iter" (moved into an IntoIter) | "dropping" | "glue" |
                \* "dropped": where the List's life is
    head,       \* fourth.rs List.head: a node address or Null
    tail,       \* fourth.rs List.tail
    heap,       \* fourth.rs: address -> Rc<RefCell<Node>> (strong count, borrow flag, fields)
    refs,       \* fourth.rs: address -> number of live Ref handles returned by peeks
    muts,       \* fourth.rs: address -> number of live RefMut handles returned by peeks
    qhead,      \* fifth.rs List.head: a node address or Null
    qtail,      \* fifth.rs List.tail
    qheap,      \* fifth.rs: address -> Box<Node> (allocated, fields)
    qub,        \* fifth.rs: a freed or null address has been dereferenced
    qit,        \* fifth.rs: the live Iter or IterMut: its kind, its field next, and
                \* how many elements it has yielded
    shead,      \* main.rs List.head: a node address or Null
    sheap,      \* main.rs: address -> Box<Node> (allocated, fields)
    plists,     \* third.rs: slot -> a List value: whether it is live, and its head
    pheap,      \* third.rs: address -> Rc<Node> (strong count, fields)
    pcall,      \* third.rs: the last call's receiver, its result and its argument
    ret,        \* the last operation and what it returned
    abs,        \* history: the sequence the pushes and pops so far describe
    aret,       \* history: what the last pop returns on that sequence
    hist,       \* history: the ends the pushes and the pops have used, the ends a pop
                \* has emptied the sequence from, and lost: abs overflowed
    destroyed   \* fourth.rs, fifth.rs: the last step's node destructions: how many,
                \* how deeply nested

vars == <<unit, pc, head, tail, heap, refs, muts, qhead, qtail, qheap, qub, qit,
          shead, sheap, plists, pheap, pcall, ret, abs, aret, hist, destroyed>>

dequeVars == <<head, tail, heap, refs, muts>>
queueVars == <<qhead, qtail, qheap, qub, qit>>
stackVars == <<shead, sheap>>
persVars == <<plists, pheap, pcall>>

Max(a, b) == IF a >= b THEN a ELSE b

\* ------------------------------------------------------- fourth.rs: nodes
\* A free address: nothing is stored there.
FreeCell == [alloc |-> FALSE, elem |-> 0, next |-> Null, prev |-> Null,
             strong |-> 0, borrow |-> 0]

\* Node::new: Rc::new(RefCell::new(Node { elem, next: None, prev: None })),
\* one owner (the local variable), not borrowed.
NodeNew(elem) == [alloc |-> TRUE, elem |-> elem, next |-> Null, prev |-> Null,
                  strong |-> 1, borrow |-> 0]

\* The allocator's answer: the lowest free address.
HasFree(h) == \E n \in Nodes : ~h[n].alloc
NewAddr(h) == CHOOSE n \in Nodes : ~h[n].alloc /\ \A m \in Nodes : m < n => h[m].alloc

\* Rc::clone of a handle to node n.
RcClone(st, n) == [st EXCEPT !.h[n].strong = @ + 1]

\* Dropping one Rc handle to node n (Null: dropping a None). The last owner
\* destroys the node: its fields next and prev are dropped in declaration
\* order, inside the node's destructor, and the address is freed. st.cnt counts
\* the nodes destroyed, st.depth the deepest nesting of node destructors.
RECURSIVE RcDrop(_, _, _)
RcDrop(st, n, d) ==
    IF n = Null \/ ~st.h[n].alloc THEN st
    ELSE IF st.h[n].strong > 1 THEN [st EXCEPT !.h[n].strong = @ - 1]
    ELSE LET nx == st.h[n].next
             pv == st.h[n].prev
             s1 == [h |-> [st.h EXCEPT ![n] = FreeCell],
                    cnt |-> st.cnt + 1,
                    depth |-> Max(st.depth, d + 1)]
         IN RcDrop(RcDrop(s1, nx, d + 1), pv, d + 1)

Start(h) == [h |-> h, cnt |-> 0, depth |-> 0]
Stat(st) == [cnt |-> st.cnt, depth |-> st.depth]
NoStat == [cnt |-> 0, depth |-> 0]

\* ------------------------------------------------- fourth.rs: RefCell flag
\* RefCell::borrow succeeds unless a RefMut is live (flag < 0);
\* RefCell::borrow_mut succeeds only when nothing is borrowed (flag = 0).
TryBorrow(cell) == cell.borrow >= 0

\* A RefCell that hands out a RefMut whatever is borrowed.
TryBorrowMut_Unchecked(cell) == TRUE

TryBorrowMut(cell) == cell.borrow = 0

\* ------------------------------------------------ fourth.rs: the operations
\* Each operation is a function of the heap and the two handles; its result
\* holds the new heap (with the destructions it ran), the new handles and the
\* returned value.

\* A push_front that does not write old_head.prev.
PushFrontOp_NoBackLink(h, hd, tl, elem) ==
    LET n == NewAddr(h)
        s0 == Start([h EXCEPT ![n] = NodeNew(elem)])
    IN IF hd # Null
       THEN LET old == hd
                s1 == RcClone(s0, n)
            IN IF ~TryBorrowMut(s1.h[old])
               THEN [st |-> RcDrop(RcDrop(s1, old, 0), n, 0),
                     head |-> n, tail |-> tl, val |-> Panic]
               ELSE LET nx == s1.h[n].next
                        s5 == [s1 EXCEPT !.h[n].next = old]
                        s6 == RcDrop(s5, nx, 0)
                        s7 == RcDrop(s6, n, 0)
                    IN [st |-> s7, head |-> n, tail |-> tl, val |-> Unit]
       ELSE LET s1 == RcClone(s0, n)
                s2 == RcDrop(s1, tl, 0)
            IN [st |-> s2, head |-> n, tail |-> n, val |-> Unit]

\* List::push_front.
PushFrontOp(h, hd, tl, elem) ==
    LET n == NewAddr(h)
        s0 == Start([h EXCEPT ![n] = NodeNew(elem)])     \* let new_head = Node::new(elem)
    IN IF hd # Null
       THEN \* Some(old_head) = self.head.take()
            LET old == hd
                s1 == RcClone(s0, n)                     \* self.head = Some(new_head.clone())
            IN IF ~TryBorrowMut(s1.h[old])
               THEN [st |-> RcDrop(RcDrop(s1, old, 0), n, 0),
                     head |-> n, tail |-> tl, val |-> Panic]
               ELSE LET s2 == RcClone(s1, n)             \* Some(new_head.clone())
                        pv == s2.h[old].prev
                        s3 == [s2 EXCEPT !.h[old].prev = n]
                        s4 == RcDrop(s3, pv, 0)          \* the value prev held before
                        nx == s4.h[n].next
                        s5 == [s4 EXCEPT !.h[n].next = old]   \* old_head moves in
                        s6 == RcDrop(s5, nx, 0)
                        s7 == RcDrop(s6, n, 0)           \* new_head goes out of scope
                    IN [st |-> s7, head |-> n, tail |-> tl, val |-> Unit]
       ELSE LET s1 == RcClone(s0, n)                     \* self.head = Some(new_head.clone())
                s2 == RcDrop(s1, tl, 0)                  \* self.tail = Some(new_head)
            IN [st |-> s2, head |-> n, tail |-> n, val |-> Unit]

\* List::push_back.
PushBackOp(h, hd, tl, elem) ==
    LET n == NewAddr(h)
        s0 == Start([h EXCEPT ![n] = NodeNew(elem)])     \* let new_tail = Node::new(elem)
    IN IF tl # Null
       THEN \* Some(old_tail) = self.tail.take()
            LET old == tl
                s1 == RcClone(s0, n)                     \* self.tail = Some(new_tail.clone())
            IN IF ~TryBorrowMut(s1.h[old])
               THEN [st |-> RcDrop(RcDrop(s1, old, 0), n, 0),
                     head |-> hd, tail |-> n, val |-> Panic]
               ELSE LET s2 == RcClone(s1, n)             \* Some(new_tail.clone())
                        nx == s2.h[old].next
                        s3 == [s2 EXCEPT !.h[old].next = n]
                        s4 == RcDrop(s3, nx, 0)          \* the value next held before
                        pv == s4.h[n].prev
                        s5 == [s4 EXCEPT !.h[n].prev = old]   \* old_tail moves in
                        s6 == RcDrop(s5, pv, 0)
                        s7 == RcDrop(s6, n, 0)           \* new_tail goes out of scope
                    IN [st |-> s7, head |-> hd, tail |-> n, val |-> Unit]
       ELSE \* line 46: self.tail = Some(new_tail.clone());
            \* line 47: self.tail = Some(new_tail);  the clone of line 46 is dropped.
            \* self.head is not assigned.
            LET s1 == RcClone(s0, n)
                s2 == RcDrop(s1, n, 0)
            IN [st |-> s2, head |-> hd, tail |-> n, val |-> Unit]

\* Rc::try_unwrap(old).ok().unwrap().into_inner().elem: with one owner the
\* node is taken apart (elem returned, the other fields dropped); with more,
\* the handle is dropped and unwrap panics.
TryUnwrap(st, old) ==
    [st |-> RcDrop(st, old, 0),
     val |-> IF st.h[old].strong = 1 THEN Some(st.h[old].elem) ELSE Panic]

\* A pop_front that leaves the new head's prev pointing to the old head.
PopFrontOp_KeepPrev(h, hd, tl) ==
    IF hd = Null
    THEN [st |-> Start(h), head |-> Null, tail |-> tl, val |-> None]
    ELSE LET old == hd
             s0 == Start(h)
         IN IF ~TryBorrowMut(h[old])
            THEN [st |-> RcDrop(s0, old, 0), head |-> Null, tail |-> tl, val |-> Panic]
            ELSE LET nx == h[old].next
                     s1 == [s0 EXCEPT !.h[old].next = Null]
                 IN IF nx # Null
                    THEN LET u == TryUnwrap(s1, old)
                         IN [st |-> u.st, head |-> nx, tail |-> tl, val |-> u.val]
                    ELSE LET s2 == RcDrop(s1, tl, 0)
                             u == TryUnwrap(s2, old)
                         IN [st |-> u.st, head |-> Null, tail |-> Null, val |-> u.val]

\* List::pop_front.
PopFrontOp(h, hd, tl) ==
    IF hd = Null
    THEN [st |-> Start(h), head |-> Null, tail |-> tl, val |-> None]
    ELSE \* self.head.take().map(|old_head| ...)
         LET old == hd
             s0 == Start(h)
         IN IF ~TryBorrowMut(h[old])
            THEN [st |-> RcDrop(s0, old, 0), head |-> Null, tail |-> tl, val |-> Panic]
            ELSE LET nx == h[old].next
                     s1 == [s0 EXCEPT !.h[old].next = Null]     \* next.take()
                 IN IF nx # Null
                    THEN \* old_head stays mutably borrowed during the match
                         IF nx = old \/ ~TryBorrowMut(s1.h[nx])
                         THEN [st |-> RcDrop(RcDrop(s1, nx, 0), old, 0),
                               head |-> Null, tail |-> tl, val |-> Panic]
                         ELSE LET pv == s1.h[nx].prev
                                  s2 == [s1 EXCEPT !.h[nx].prev = Null]   \* prev.take()
                                  s3 == RcDrop(s2, pv, 0)
                                  u == TryUnwrap(s3, old)
                              IN [st |-> u.st, head |-> nx, tail |-> tl, val |-> u.val]
                    ELSE LET s2 == RcDrop(s1, tl, 0)            \* self.tail.take()
                             u == TryUnwrap(s2, old)
                         IN [st |-> u.st, head |-> Null, tail |-> Null, val |-> u.val]

\* A pop_back written as a copy of pop_front.
PopBackOp_AsFront(h, hd, tl) == PopFrontOp(h, hd, tl)

\* List::pop_back.
PopBackOp(h, hd, tl) ==
    IF tl = Null
    THEN [st |-> Start(h), head |-> hd, tail |-> Null, val |-> None]
    ELSE \* self.tail.take().map(|old_tail| ...)
         LET old == tl
             s0 == Start(h)
         IN IF ~TryBorrowMut(h[old])
            THEN [st |-> RcDrop(s0, old, 0), head |-> hd, tail |-> Null, val |-> Panic]
            ELSE LET pv == h[old].prev
                     s1 == [s0 EXCEPT !.h[old].prev = Null]     \* prev.take()
                 IN IF pv # Null
                    THEN IF pv = old \/ ~TryBorrowMut(s1.h[pv])
                         THEN [st |-> RcDrop(RcDrop(s1, pv, 0), old, 0),
                               head |-> hd, tail |-> Null, val |-> Panic]
                         ELSE LET nx == s1.h[pv].next
                                  s2 == [s1 EXCEPT !.h[pv].next = Null]   \* next.take()
                                  s3 == RcDrop(s2, nx, 0)
                                  u == TryUnwrap(s3, old)
                              IN [st |-> u.st, head |-> hd, tail |-> pv, val |-> u.val]
                    ELSE LET s2 == RcDrop(s1, hd, 0)            \* self.head.take()
                             u == TryUnwrap(s2, old)
                         IN [st |-> u.st, head |-> Null, tail |-> Null, val |-> u.val]

\* ------------------------------------------------- fifth.rs: the operations
QFreeCell == [alloc |-> FALSE, elem |-> 0, next |-> Null]

\* A push that links the new node in front of head.
QPushOp_AtHead(h, hd, tl, elem, n) ==
    [h |-> [h EXCEPT ![n] = [alloc |-> TRUE, elem |-> elem, next |-> hd]],
     head |-> n, tail |-> IF tl = Null THEN n ELSE tl, val |-> Unit, ub |-> FALSE]

\* List::push, with the address n the allocator returns for Box::new. Writing
\* through a tail that refers to freed memory is undefined: the write lands in
\* whatever lives at that address now.
QPushOp(h, hd, tl, elem, n) ==
    LET h0 == [h EXCEPT ![n] = [alloc |-> TRUE, elem |-> elem, next |-> Null]]
    IN IF tl = Null                                       \* self.tail.is_null()
       THEN [h |-> h0, head |-> n, tail |-> n, val |-> Unit, ub |-> FALSE]
       ELSE [h |-> IF h0[tl].alloc THEN [h0 EXCEPT ![tl].next = n] ELSE h0,
             head |-> hd, tail |-> n, val |-> Unit,       \* (*self.tail).next = new_tail
             ub |-> ~h[tl].alloc]

\* A pop that returns the head's value and frees it but leaves head on it.
QPopOp_NoAdvance(h, hd, tl) ==
    IF hd = Null
    THEN [h |-> h, head |-> hd, tail |-> tl, val |-> None, ub |-> FALSE, cnt |-> 0]
    ELSE [h |-> [h EXCEPT ![hd].alloc = FALSE],
          head |-> hd, tail |-> tl, val |-> Some(h[hd].elem),
          ub |-> ~h[hd].alloc, cnt |-> 1]

\* A pop that leaves tail as it is when the chain empties.
QPopOp_KeepTail(h, hd, tl) ==
    IF hd = Null
    THEN [h |-> h, head |-> hd, tail |-> tl, val |-> None, ub |-> FALSE, cnt |-> 0]
    ELSE [h |-> [h EXCEPT ![hd] = QFreeCell],
          head |-> h[hd].next,
          tail |-> tl,
          val |-> Some(h[hd].elem),
          ub |-> ~h[hd].alloc,
          cnt |-> 1]

\* List::pop: Box::from_raw(self.head) owns the node and frees it when
\* old_head goes out of scope; next is a raw pointer, so nothing else is freed.
\* A pop that reads the head node through the raw pointer without taking the
\* Box back.
QPopOp_NoFree(h, hd, tl) ==
    IF hd = Null
    THEN [h |-> h, head |-> hd, tail |-> tl, val |-> None, ub |-> FALSE, cnt |-> 0]
    ELSE LET nh == h[hd].next
         IN [h |-> h,
             head |-> nh,
             tail |-> IF nh = Null THEN Null ELSE tl,
             val |-> Some(h[hd].elem),
             ub |-> ~h[hd].alloc,
             cnt |-> 0]

QPopOp(h, hd, tl) ==
    IF hd = Null                                          \* self.head.is_null()
    THEN [h |-> h, head |-> hd, tail |-> tl, val |-> None, ub |-> FALSE, cnt |-> 0]
    ELSE LET nh == h[hd].next                             \* self.head = old_head.next
         IN [h |-> [h EXCEPT ![hd] = QFreeCell],
             head |-> nh,
             tail |-> IF nh = Null THEN Null ELSE tl,     \* self.tail = ptr::null_mut()
             val |-> Some(h[hd].elem),
             ub |-> ~h[hd].alloc,
             cnt |-> 1]

\* peek: self.head.as_ref().map(|node| &node.elem)
QPeekOp(h, hd) ==
    IF hd = Null THEN [h |-> h, val |-> None, ub |-> FALSE]
    ELSE [h |-> h, val |-> Some(h[hd].elem), ub |-> ~h[hd].alloc]

\* A peek_mut whose reference is to the value of the head's successor.
QPeekMutOp_AtNext(h, hd, v) ==
    IF hd = Null THEN [h |-> h, val |-> None, ub |-> FALSE]
    ELSE LET n == IF h[hd].next = Null THEN hd ELSE h[hd].next
         IN [h |-> [h EXCEPT ![n].elem = v], val |-> Some(h[hd].elem), ub |-> ~h[hd].alloc]

\* peek_mut: self.head.as_mut().map(|node| &mut node.elem), and the caller's
\* assignment of v through the reference it got.
QPeekMutOp(h, hd, v) ==
    IF hd = Null THEN [h |-> h, val |-> None, ub |-> FALSE]
    ELSE [h |-> [h EXCEPT ![hd].elem = v], val |-> Some(h[hd].elem), ub |-> ~h[hd].alloc]

\* No Iter and no IterMut is live.
NoIter == [kind |-> "none", next |-> Null, idx |-> 0]

\* An Iter whose next leaves the cursor where it is.
QIterNextOp_NoAdvance(h, nx) ==
    IF nx = Null THEN [h |-> h, next |-> Null, val |-> None, ub |-> FALSE]
    ELSE [h |-> h, next |-> nx, val |-> Some(h[nx].elem), ub |-> ~h[nx].alloc]

\* Iter::next: self.next.map(|f| { self.next = f.next.as_ref(); &f.elem })
QIterNextOp(h, nx) ==
    IF nx = Null THEN [h |-> h, next |-> Null, val |-> None, ub |-> FALSE]
    ELSE [h |-> h, next |-> h[nx].next, val |-> Some(h[nx].elem), ub |-> ~h[nx].alloc]

\* IterMut::next: self.next.take().map(|f| { self.next = f.next.as_mut();
\* &mut f.elem }), and the caller's assignment of v through the reference.
QIterMutNextOp(h, nx, v) ==
    IF nx = Null THEN [h |-> h, next |-> Null, val |-> None, ub |-> FALSE]
    ELSE [h |-> [h EXCEPT ![nx].elem = v], next |-> h[nx].next,
          val |-> Some(h[nx].elem), ub |-> ~h[nx].alloc]

\* --------------------------------------------------- main.rs: Box<Node>
SFreeCell == [alloc |-> FALSE, value |-> 0, next |-> Null]

\* A push_front that links the new node behind the head.
SPushFrontOp_AfterHead(h, hd, v, n) ==
    IF hd = Null
    THEN [h |-> [h EXCEPT ![n] = [alloc |-> TRUE, value |-> v, next |-> Null]],
          head |-> n, val |-> Unit]
    ELSE [h |-> [h EXCEPT ![n] = [alloc |-> TRUE, value |-> v, next |-> h[hd].next],
                          ![hd].next = n],
          head |-> hd, val |-> Unit]

\* push_front: the new node takes self.head as its next and becomes self.head;
\* n is the address Box::new returns.
SPushFrontOp(h, hd, v, n) ==
    [h |-> [h EXCEPT ![n] = [alloc |-> TRUE, value |-> v, next |-> hd]],
     head |-> n, val |-> Unit]

\* pop_front: self.head.take().map(|boxed_node| { self.head = boxed_node.next;
\* boxed_node.value }); the Box is freed when the closure returns.
SPopFrontOp(h, hd) ==
    IF hd = Null THEN [h |-> h, head |-> Null, val |-> None]
    ELSE [h |-> [h EXCEPT ![hd] = SFreeCell], head |-> h[hd].next, val |-> Some(h[hd].value)]

\* peek: self.head.as_ref().map(|boxed_node| &boxed_node.value)
SPeekOp(h, hd) ==
    IF hd = Null THEN [h |-> h, head |-> hd, val |-> None]
    ELSE [h |-> h, head |-> hd, val |-> Some(h[hd].value)]

\* drop: current_link = self.head.take(); every turn of the while loop takes
\* the next link out of the boxed node and frees the node.
RECURSIVE SDropOp(_, _)
SDropOp(h, cur) ==
    IF cur = Null THEN [h |-> h, head |-> Null, val |-> Unit]
    ELSE SDropOp([h EXCEPT ![cur] = SFreeCell], h[cur].next)

\* --------------------------------------------------- third.rs: Rc<Node>
Lists == 1..MaxLists
NewList == [live |-> TRUE, head |-> Null]
NoList == [live |-> FALSE, head |-> Null]
NoCall == [recv |-> 0, out |-> 0, elem |-> 0]
PFreeCell == [alloc |-> FALSE, value |-> 0, next |-> Null, strong |-> 0]

\* Rc::clone of a Link
PClone(h, n) == IF n = Null THEN h ELSE [h EXCEPT ![n].strong = @ + 1]

\* A prepend that copies the receiver's head without Rc::clone.
PPrependOp_NoClone(h, hd, x, n) ==
    [h |-> [h EXCEPT ![n] = [alloc |-> TRUE, value |-> x, next |-> hd, strong |-> 1]],
     head |-> n, val |-> Unit]

\* prepend: a new List whose head is Rc::new(Node { value: elem, next:
\* self.head.clone() }); n is the address Rc::new returns.
PPrependOp(h, hd, x, n) ==
    [h |-> [PClone(h, hd) EXCEPT ![n] = [alloc |-> TRUE, value |-> x, next |-> hd, strong |-> 1]],
     head |-> n, val |-> Unit]

\* head: self.head.as_ref().map(|n| &n.value)
PHeadOp(h, hd) ==
    [h |-> h, head |-> hd, val |-> IF hd = Null THEN None ELSE Some(h[hd].value)]

\* tail: a new List whose head is self.head.as_ref().and_then(|node| node.next.clone())
PTailOp(h, hd) ==
    LET nh == IF hd = Null THEN Null ELSE h[hd].next
    IN [h |-> PClone(h, nh), head |-> nh, val |-> Unit]

\* drop: head = self.head.take(); every turn of the loop unwraps the node if
\* this List is its only owner, frees it and goes on with its next; a node
\* another owner shares ends the loop, and the Rc handed back in Err is dropped.
RECURSIVE PDropOp(_, _)
PDropOp(h, cur) ==
    IF cur = Null THEN [h |-> h, head |-> Null, val |-> Unit]
    ELSE IF h[cur].strong = 1
    THEN PDropOp([h EXCEPT ![cur] = PFreeCell], h[cur].next)
    ELSE [h |-> [h EXCEPT ![cur].strong = @ - 1], head |-> Null, val |-> Unit]

\* ----------------------------------------------------------------- history
\* The abstract double-ended sequence the calls so far describe, what a pop
\* returns on it, the ends the pushes and pops have used since the sequence
\* was last empty after use of a single end, and the ends a pop has emptied
\* it from. The history is kept while it can be compared with the list: it is
\* lost once a pop has answered otherwise than the sequence does, once the
\* sequence is longer than the memory, and once a peek has been called (a
\* RefMut lets the caller overwrite an element).
NoHist == [push |-> {}, pop |-> {}, emptied |-> {}, lost |-> FALSE]
Lost == [abs |-> <<>>, aret |-> Unit, hist |-> [NoHist EXCEPT !.lost = TRUE]]
Departed == ret.op \in {"pop_front", "pop_back", "pop", "next", "next_back"} /\ ret.val # aret

Used(kind, end, seq) ==
    LET e == [hist EXCEPT ![kind] = @ \cup {end}]
    IN IF seq = <<>> /\ Cardinality(e.push \cup e.pop) <= 1
       THEN [e EXCEPT !.push = {}, !.pop = {}]
       ELSE e

AfterPush(end, v) ==
    IF hist.lost \/ Departed \/ Len(abs) >= MaxNodes THEN Lost
    ELSE LET seq == IF end = "front" THEN <<v>> \o abs ELSE Append(abs, v)
         IN [abs |-> seq, aret |-> Unit, hist |-> Used("push", end, seq)]

AfterPop(end) ==
    IF hist.lost \/ Departed THEN Lost
    ELSE IF abs = <<>> THEN [abs |-> abs, aret |-> None, hist |-> Used("pop", end, abs)]
    ELSE LET seq == IF end = "front" THEN Tail(abs) ELSE SubSeq(abs, 1, Len(abs) - 1)
             u == Used("pop", end, seq)
         IN [abs |-> seq,
             aret |-> Some(IF end = "front" THEN Head(abs) ELSE abs[Len(abs)]),
             hist |-> IF seq = <<>> THEN [u EXCEPT !.emptied = @ \cup {end}] ELSE u]

\* A read of position i of the sequence, and a write of v to it.
AfterRead(i) ==
    IF hist.lost \/ Departed THEN Lost
    ELSE [abs |-> abs, aret |-> IF i \in 1..Len(abs) THEN Some(abs[i]) ELSE None, hist |-> hist]

AfterWrite(i, v) ==
    IF hist.lost \/ Departed THEN Lost
    ELSE [abs |-> IF i \in 1..Len(abs) THEN [abs EXCEPT ![i] = v] ELSE abs,
          aret |-> IF i \in 1..Len(abs) THEN Some(abs[i]) ELSE None,
          hist |-> hist]

Record(g) == abs' = g.abs /\ aret' = g.aret /\ hist' = g.hist

\* ------------------------------------------------------------------ Init
Init ==
    /\ unit \in {"fourth", "fifth", "main", "third"}
    /\ pc = "live"
    /\ head = Null /\ tail = Null                         \* fourth.rs List::new
    /\ heap = [n \in Nodes |-> FreeCell]
    /\ refs = [n \in Nodes |-> 0]
    /\ muts = [n \in Nodes |-> 0]
    /\ qhead = Null /\ qtail = Null                       \* fifth.rs List::new
    /\ qheap = [n \in Nodes |-> QFreeCell]
    /\ qub = FALSE
    /\ qit = NoIter
    /\ shead = Null                                       \* main.rs List::new
    /\ sheap = [n \in Nodes |-> SFreeCell]
    /\ plists = [k \in Lists |-> IF k = 1 THEN NewList ELSE NoList]  \* third.rs List::new
    /\ pheap = [n \in Nodes |-> PFreeCell]
    /\ pcall = NoCall
    /\ ret = [op |-> "new", val |-> Unit]
    /\ abs = <<>>
    /\ aret = Unit
    /\ hist = NoHist
    /\ destroyed = NoStat

\* --------------------------------------------------- fourth.rs: the actions
\* A Ref or RefMut returned by a peek borrows the List: while one is live the
\* compiler rejects every &mut self call and the List's drop.
NoHandles == \A n \in Nodes : refs[n] = 0 /\ muts[n] = 0
RECURSIVE Sum(_, _)
Sum(f, S) == IF S = {} THEN 0 ELSE LET x == CHOOSE y \in S : TRUE IN f[x] + Sum(f, S \ {x})
Handles == Sum(refs, Nodes) + Sum(muts, Nodes)

Deque(r, op) ==
    /\ heap' = r.st.h
    /\ head' = r.head
    /\ tail' = r.tail
    /\ ret' = [op |-> op, val |-> r.val]
    /\ destroyed' = Stat(r.st)
    /\ UNCHANGED <<unit, refs, muts, queueVars, stackVars, persVars>>

PushFront(v) ==
    /\ unit = "fourth" /\ pc = "live" /\ NoHandles /\ HasFree(heap)
    /\ Deque(PushFrontOp(heap, head, tail, v), "push_front")
    /\ Record(AfterPush("front", v))
    /\ UNCHANGED pc

PushBack(v) ==
    /\ unit = "fourth" /\ pc = "live" /\ NoHandles /\ HasFree(heap)
    /\ Deque(PushBackOp(heap, head, tail, v), "push_back")
    /\ Record(AfterPush("back", v))
    /\ UNCHANGED pc

PopFront ==
    /\ unit = "fourth" /\ pc = "live" /\ NoHandles
    /\ Deque(PopFrontOp(heap, head, tail), "pop_front")
    /\ Record(AfterPop("front"))
    /\ UNCHANGED pc

PopBack ==
    /\ unit = "fourth" /\ pc = "live" /\ NoHandles
    /\ Deque(PopBackOp(heap, head, tail), "pop_back")
    /\ Record(AfterPop("back"))
    /\ UNCHANGED pc

\* impl Drop for List: one turn of  while self.pop_front().is_some() {}
DropLoop ==
    /\ unit = "fourth" /\ pc \in {"live", "iter", "dropping"} /\ NoHandles
    /\ LET r == PopFrontOp(heap, head, tail)
       IN /\ Deque(r, "drop")
          /\ pc' = IF r.val.tag = "some" THEN "dropping" ELSE "glue"
    /\ Record(AfterPop("front"))

\* After drop() returns the fields head and tail are dropped, in that order.
DropGlue ==
    /\ unit = "fourth" /\ pc = "glue"
    /\ LET s == RcDrop(RcDrop(Start(heap), head, 0), tail, 0)
       IN /\ heap' = s.h
          /\ destroyed' = Stat(s)
    /\ head' = Null /\ tail' = Null
    /\ pc' = "dropped"
    /\ ret' = [op |-> "drop", val |-> Unit]
    /\ UNCHANGED <<unit, refs, muts, queueVars, stackVars, persVars, abs, aret, hist>>

\* into_iter(self) moves the List into an IntoIter. The history is kept for a
\* deque that only pushes have built.
BuiltByPushes == ~hist.lost /\ ~Departed /\ hist.pop = {} /\ hist.emptied = {}

IntoIter ==
    /\ unit = "fourth" /\ pc = "live" /\ NoHandles
    /\ pc' = "iter"
    /\ ret' = [op |-> "into_iter", val |-> Unit]
    /\ destroyed' = NoStat
    /\ Record(IF BuiltByPushes THEN [abs |-> abs, aret |-> Unit, hist |-> hist] ELSE Lost)
    /\ UNCHANGED <<unit, dequeVars, stackVars, persVars, queueVars>>

\* Iterator::next is self.0.pop_front()
IterNext ==
    /\ unit = "fourth" /\ pc = "iter"
    /\ Deque(PopFrontOp(heap, head, tail), "next")
    /\ Record(AfterPop("front"))
    /\ UNCHANGED pc

\* DoubleEndedIterator::next_back is self.0.pop_back()
IterNextBack ==
    /\ unit = "fourth" /\ pc = "iter"
    /\ Deque(PopBackOp(heap, head, tail), "next_back")
    /\ Record(AfterPop("back"))
    /\ UNCHANGED pc

\* node.borrow() of a peek: a Ref to the node's elem, or BorrowError.
PeekOp(h, n) ==
    IF n = Null THEN [h |-> h, val |-> None, got |-> FALSE]
    ELSE IF TryBorrow(h[n])
    THEN [h |-> [h EXCEPT ![n].borrow = @ + 1], val |-> Some(h[n].elem), got |-> TRUE]
    ELSE [h |-> h, val |-> Panic, got |-> FALSE]

\* node.borrow_mut() of a peek: a RefMut to the node's elem, or BorrowMutError.
PeekMutOp(h, n) ==
    IF n = Null THEN [h |-> h, val |-> None, got |-> FALSE]
    ELSE IF TryBorrowMut(h[n])
    THEN [h |-> [h EXCEPT ![n].borrow = -1], val |-> Some(h[n].elem), got |-> TRUE]
    ELSE [h |-> h, val |-> Panic, got |-> FALSE]

Peek(r, n, op) ==
    /\ unit = "fourth" /\ pc = "live" /\ Handles < MaxHandles
    /\ heap' = r.h
    /\ refs' = IF r.got /\ op \in {"peek_front", "peek_back"}
               THEN [refs EXCEPT ![n] = @ + 1] ELSE refs
    /\ muts' = IF r.got /\ op \in {"peek_front_mut", "peek_back_mut"}
               THEN [muts EXCEPT ![n] = @ + 1] ELSE muts
    /\ ret' = [op |-> op, val |-> r.val]
    /\ destroyed' = NoStat
    /\ Record(Lost)
    /\ UNCHANGED <<unit, pc, head, tail, queueVars, stackVars, persVars>>

PeekFront == Peek(PeekOp(heap, head), head, "peek_front")

PeekFrontMut == Peek(PeekMutOp(heap, head), head, "peek_front_mut")

PeekBack == Peek(PeekOp(heap, tail), tail, "peek_back")

PeekBackMut == Peek(PeekMutOp(heap, tail), tail, "peek_back_mut")

\* *handle = v through a live RefMut (test::peek_mut): the node's elem is
\* overwritten in place.
WriteMut(n, v) ==
    /\ unit = "fourth" /\ muts[n] > 0
    /\ heap' = [heap EXCEPT ![n].elem = v]
    /\ ret' = [op |-> "write", val |-> Some(v)]
    /\ destroyed' = NoStat
    /\ UNCHANGED <<unit, pc, head, tail, refs, muts, queueVars, stackVars, persVars, abs, aret, hist>>

\* A Ref goes out of scope: the RefCell's reader count goes down.
ReleaseRef(n) ==
    /\ unit = "fourth" /\ refs[n] > 0
    /\ refs' = [refs EXCEPT ![n] = @ - 1]
    /\ heap' = [heap EXCEPT ![n].borrow = @ - 1]
    /\ ret' = [op |-> "release", val |-> Unit]
    /\ destroyed' = NoStat
    /\ UNCHANGED <<unit, pc, head, tail, muts, queueVars, stackVars, persVars, abs, aret, hist>>

\* A RefMut goes out of scope: the RefCell's writer mark is taken back.
ReleaseMut(n) ==
    /\ unit = "fourth" /\ muts[n] > 0
    /\ muts' = [muts EXCEPT ![n] = @ - 1]
    /\ heap' = [heap EXCEPT ![n].borrow = @ + 1]
    /\ ret' = [op |-> "release", val |-> Unit]
    /\ destroyed' = NoStat
    /\ UNCHANGED <<unit, pc, head, tail, refs, queueVars, stackVars, persVars, abs, aret, hist>>

\* ---------------------------------------------------- fifth.rs: the actions
Queue(r, op) ==
    /\ qheap' = r.h
    /\ qhead' = r.head
    /\ qtail' = r.tail
    /\ qub' = (qub \/ r.ub)
    /\ qit' = qit
    /\ ret' = [op |-> op, val |-> r.val]
    /\ UNCHANGED <<unit, dequeVars, stackVars, persVars>>

QPush(v) ==
    /\ unit = "fifth" /\ pc = "live" /\ qit = NoIter
    /\ \E n \in Nodes :
          /\ ~qheap[n].alloc
          /\ Queue(QPushOp(qheap, qhead, qtail, v, n), "push")
    /\ destroyed' = NoStat
    /\ Record(AfterPush("back", v))
    /\ UNCHANGED pc

QPop ==
    /\ unit = "fifth" /\ pc = "live" /\ qit = NoIter
    /\ LET r == QPopOp(qheap, qhead, qtail)
       IN /\ Queue(r, "pop")
          /\ destroyed' = [cnt |-> r.cnt, depth |-> r.cnt]
    /\ Record(AfterPop("front"))
    /\ UNCHANGED pc

\* impl Drop for List: one turn of  while self.pop().is_some() {} ; the raw
\* pointers head and tail have no destructor, so nothing follows the loop.
QDropLoop ==
    /\ unit = "fifth" /\ pc \in {"live", "iter", "dropping"} /\ qit = NoIter
    /\ LET r == QPopOp(qheap, qhead, qtail)
       IN /\ Queue(r, "drop")
          /\ destroyed' = [cnt |-> r.cnt, depth |-> r.cnt]
          /\ pc' = IF r.val.tag = "some" THEN "dropping" ELSE "dropped"
    /\ Record(AfterPop("front"))

\* What peek, peek_mut and the iterators touch: node contents only.
QAccess(r, op) ==
    /\ qheap' = r.h
    /\ qub' = (qub \/ r.ub)
    /\ ret' = [op |-> op, val |-> r.val]
    /\ destroyed' = NoStat
    /\ UNCHANGED <<unit, pc, qhead, qtail, dequeVars, stackVars, persVars>>

\* peek(&self): allowed while an Iter or IterMut borrows the List.
QPeek ==
    /\ unit = "fifth" /\ pc = "live"
    /\ QAccess(QPeekOp(qheap, qhead), "peek")
    /\ Record(AfterRead(1))
    /\ UNCHANGED qit

\* peek_mut(&mut self)
QPeekMut(v) ==
    /\ unit = "fifth" /\ pc = "live" /\ qit = NoIter
    /\ QAccess(QPeekMutOp(qheap, qhead, v), "peek_mut")
    /\ Record(AfterWrite(1, v))
    /\ UNCHANGED qit

\* iter(&self) and iter_mut(&self): the List stays borrowed, so that no
\* &mut self call compiles, until the iterator is gone. One iterator is live
\* at a time.
QIterNew(kind) ==
    /\ unit = "fifth" /\ pc = "live" /\ qit = NoIter
    /\ qit' = [kind |-> kind, next |-> qhead, idx |-> 0]
    /\ ret' = [op |-> kind, val |-> Unit]
    /\ destroyed' = NoStat
    /\ Record(IF hist.lost \/ Departed THEN Lost ELSE [abs |-> abs, aret |-> Unit, hist |-> hist])
    /\ UNCHANGED <<unit, pc, qhead, qtail, qheap, qub, dequeVars, stackVars, persVars>>

QIter == QIterNew("iter")

QIterMut == QIterNew("iter_mut")

QIterNext ==
    /\ unit = "fifth" /\ qit.kind = "iter"
    /\ LET r == QIterNextOp(qheap, qit.next)
       IN /\ QAccess(r, "iter_next")
          /\ qit' = [qit EXCEPT !.next = r.next,
                                !.idx = IF r.val.tag = "some" THEN @ + 1 ELSE @]
    /\ Record(AfterRead(qit.idx + 1))

QIterMutNext(v) ==
    /\ unit = "fifth" /\ qit.kind = "iter_mut"
    /\ LET r == QIterMutNextOp(qheap, qit.next, v)
       IN /\ QAccess(r, "iter_mut_next")
          /\ qit' = [qit EXCEPT !.next = r.next,
                                !.idx = IF r.val.tag = "some" THEN @ + 1 ELSE @]
    /\ Record(AfterWrite(qit.idx + 1, v))

\* The Iter or IterMut goes out of scope.
QIterEnd ==
    /\ unit = "fifth" /\ qit # NoIter
    /\ qit' = NoIter
    /\ ret' = [op |-> "iter_end", val |-> Unit]
    /\ destroyed' = NoStat
    /\ UNCHANGED <<unit, pc, qhead, qtail, qheap, qub, dequeVars, stackVars, persVars, abs, aret, hist>>

\* into_iter(self) moves the List into an IntoIter.
QIntoIter ==
    /\ unit = "fifth" /\ pc = "live" /\ qit = NoIter
    /\ pc' = "iter"
    /\ ret' = [op |-> "into_iter", val |-> Unit]
    /\ destroyed' = NoStat
    /\ Record(IF hist.lost \/ Departed THEN Lost ELSE [abs |-> abs, aret |-> Unit, hist |-> hist])
    /\ UNCHANGED <<unit, queueVars, dequeVars, stackVars, persVars>>

\* IntoIter::next is self.0.pop()
QIntoIterNext ==
    /\ unit = "fifth" /\ pc = "iter"
    /\ LET r == QPopOp(qheap, qhead, qtail)
       IN /\ Queue(r, "next")
          /\ destroyed' = [cnt |-> r.cnt, depth |-> r.cnt]
    /\ Record(AfterPop("front"))
    /\ UNCHANGED pc

\* ----------------------------------------------------- main.rs: the actions
Stack(r, op) ==
    /\ sheap' = r.h
    /\ shead' = r.head
    /\ ret' = [op |-> op, val |-> r.val]
    /\ destroyed' = NoStat
    /\ UNCHANGED <<unit, dequeVars, queueVars, persVars>>

SPushFront(v) ==
    /\ unit = "main" /\ pc = "live"
    /\ \E n \in Nodes :
          /\ ~sheap[n].alloc
          /\ Stack(SPushFrontOp(sheap, shead, v, n), "push_front")
    /\ Record(AfterPush("front", v))
    /\ UNCHANGED pc

SPopFront ==
    /\ unit = "main" /\ pc = "live"
    /\ Stack(SPopFrontOp(sheap, shead), "pop_front")
    /\ Record(AfterPop("front"))
    /\ UNCHANGED pc

SPeek ==
    /\ unit = "main" /\ pc = "live"
    /\ Stack(SPeekOp(sheap, shead), "peek")
    /\ Record(AfterRead(1))
    /\ UNCHANGED pc

\* into_iter(self) moves the List into an IntoIter.
SIntoIter ==
    /\ unit = "main" /\ pc = "live"
    /\ pc' = "iter"
    /\ ret' = [op |-> "into_iter", val |-> Unit]
    /\ destroyed' = NoStat
    /\ Record(IF hist.lost \/ Departed THEN Lost ELSE [abs |-> abs, aret |-> Unit, hist |-> hist])
    /\ UNCHANGED <<unit, dequeVars, queueVars, stackVars, persVars>>

\* IntoIter::next is self.0.pop_front()
SIntoIterNext ==
    /\ unit = "main" /\ pc = "iter"
    /\ Stack(SPopFrontOp(sheap, shead), "next")
    /\ Record(AfterPop("front"))
    /\ UNCHANGED pc

\* impl Drop for List, of the List or of the IntoIter that holds it.
SDrop ==
    /\ unit = "main" /\ pc \in {"live", "iter"}
    /\ Stack(SDropOp(sheap, shead), "drop")
    /\ pc' = "dropped"
    /\ UNCHANGED <<abs, aret, hist>>

\* ---------------------------------------------------- third.rs: the actions
\* A call on the List in slot l whose result, if it is a List, goes to slot k.
Pers(r, l, k, x, op) ==
    /\ unit = "third" /\ plists[l].live
    /\ pheap' = r.h
    /\ plists' = IF k = 0 THEN plists ELSE [plists EXCEPT ![k] = [live |-> TRUE, head |-> r.head]]
    /\ pcall' = [recv |-> l, out |-> k, elem |-> x]
    /\ ret' = [op |-> op, val |-> r.val]
    /\ UNCHANGED <<unit, pc, dequeVars, queueVars, stackVars, abs, aret, hist, destroyed>>

PNew(k) ==
    /\ unit = "third" /\ ~plists[k].live
    /\ plists' = [plists EXCEPT ![k] = NewList]
    /\ pcall' = [recv |-> 0, out |-> k, elem |-> 0]
    /\ ret' = [op |-> "new", val |-> Unit]
    /\ UNCHANGED <<unit, pc, pheap, dequeVars, queueVars, stackVars, abs, aret, hist, destroyed>>

PPrepend(l, k, x) ==
    /\ ~plists[k].live
    /\ \E n \in Nodes :
          /\ ~pheap[n].alloc
          /\ Pers(PPrependOp(pheap, plists[l].head, x, n), l, k, x, "prepend")

PHead(l) == Pers(PHeadOp(pheap, plists[l].head), l, 0, 0, "head")

PTail(l, k) ==
    /\ ~plists[k].live
    /\ Pers(PTailOp(pheap, plists[l].head), l, k, 0, "tail")

\* The List in slot l goes out of scope.
PDrop(l) ==
    /\ unit = "third" /\ plists[l].live
    /\ pheap' = PDropOp(pheap, plists[l].head).h
    /\ plists' = [plists EXCEPT ![l] = NoList]
    /\ pcall' = [recv |-> l, out |-> 0, elem |-> 0]
    /\ ret' = [op |-> "drop", val |-> Unit]
    /\ UNCHANGED <<unit, pc, dequeVars, queueVars, stackVars, abs, aret, hist, destroyed>>

\* ------------------------------------------------------------------ Spec
Next ==
    \/ \E v \in Elems : PushFront(v)
    \/ \E v \in Elems : PushBack(v)
    \/ PopFront
    \/ PopBack
    \/ IntoIter
    \/ IterNext
    \/ IterNextBack
    \/ PeekFront
    \/ PeekFrontMut
    \/ PeekBack
    \/ PeekBackMut
    \/ \E n \in Nodes, v \in Elems : WriteMut(n, v)
    \/ \E n \in Nodes : ReleaseRef(n)
    \/ \E n \in Nodes : ReleaseMut(n)
    \/ DropLoop
    \/ DropGlue
    \/ \E v \in Elems : QPush(v)
    \/ QPop
    \/ QDropLoop
    \/ QPeek
    \/ \E v \in Elems : QPeekMut(v)
    \/ QIter
    \/ QIterMut
    \/ QIterNext
    \/ \E v \in Elems : QIterMutNext(v)
    \/ QIterEnd
    \/ QIntoIter
    \/ QIntoIterNext
    \/ \E v \in Elems : SPushFront(v)
    \/ SPopFront
    \/ SPeek
    \/ SIntoIter
    \/ SIntoIterNext
    \/ SDrop
    \/ \E k \in Lists : PNew(k)
    \/ \E l, k \in Lists, x \in Elems : PPrepend(l, k, x)
    \/ \E l \in Lists : PHead(l)
    \/ \E l, k \in Lists : PTail(l, k)
    \/ \E l \in Lists : PDrop(l)

Spec == Init /\ [][Next]_vars

\* drop() is straight-line code: once a List is being dropped, every turn of
\* its loop and the drop of its fields are run.
Teardown == DropLoop \/ DropGlue \/ QDropLoop
FairSpec == Spec /\ WF_vars(pc \in {"dropping", "glue"} /\ Teardown)

\* ------------------------------------------------------------ observations
\* The nodes met from address n by following link ("next" or "prev"), at
\* most k of them.
RECURSIVE Walk(_, _, _, _)
Walk(h, n, link, k) ==
    IF n = Null \/ k = 0 THEN <<>>
    ELSE <<n>> \o Walk(h, h[n][link], link, k - 1)

Reverse(s) == [i \in 1..Len(s) |-> s[Len(s) + 1 - i]]
ElemsOf(h, s) == [i \in 1..Len(s) |-> h[s[i]].elem]

Fwd == Walk(heap, head, "next", MaxNodes + 1)       \* head -> tail via next
Bwd == Walk(heap, tail, "prev", MaxNodes + 1)       \* tail -> head via prev
Stored == Cardinality({n \in Nodes : heap[n].alloc})
QChain == Walk(qheap, qhead, "next", MaxNodes + 1)
QStored == Cardinality({n \in Nodes : qheap[n].alloc})
Pops == {"pop_front", "pop_back"}
Pushes == {"push_front", "push_back"}

\* ------------------------------------------------------------------ claims

\* C1: after any sequence of push_front/push_back/pop_front/pop_back on the
\* deque, head is present iff tail is present iff elements are stored, and the
\* elements met head -> tail via next are the reverse of those met
\* tail -> head via prev.
C1_DequeShape ==
    (unit = "fourth" /\ pc = "live") =>
        /\ (head # Null) <=> (tail # Null)
        /\ (tail # Null) <=> (Stored > 0)
        /\ ElemsOf(heap, Fwd) = Reverse(ElemsOf(heap, Bwd))

\* C2: after any sequence of push/pop on the queue, tail is null iff head is
\* null, and otherwise tail is the node reached from head after
\* (length - 1) next steps, the last node, whose next is null.
C2_QueueTail ==
    (unit = "fifth" /\ pc = "live") =>
        /\ (qtail = Null) <=> (qhead = Null)
        /\ Len(QChain) = Len(abs)
        /\ Len(QChain) = QStored
        /\ qhead # Null =>
              /\ qtail = QChain[Len(abs)]
              /\ qheap[qtail].alloc
              /\ qheap[qtail].next = Null

\* C2's case: a queue of three nodes whose earlier nodes have been popped and
\* pushed again.
C2_Witness ==
    /\ unit = "fifth" /\ pc = "live"
    /\ Len(QChain) = 3
    /\ qtail # 3
    /\ ret.op = "push"
    /\ "front" \in hist.pop

\* C3: under any interleaving of the four deque operations, pop_front returns
\* and removes the first element of the sequence the calls describe, pop_back
\* its last, and each returns None exactly when that sequence is empty.
C3_DequeRefines ==
    (unit = "fourth" /\ ~hist.lost /\ ret.op \in Pops) =>
        /\ ret.val = aret
        /\ Stored = Len(abs)

\* The pushes used one end and the pops the other.
OppositeEnds ==
    \/ hist.push \subseteq {"back"} /\ hist.pop \subseteq {"front"}
    \/ hist.push \subseteq {"front"} /\ hist.pop \subseteq {"back"}

\* C4: elements pushed with push_back onto an empty deque come out of
\* pop_front in push order, and elements pushed with push_front come out of
\* pop_back in push order (FIFO).
C4_OppositeEndFifo ==
    (unit = "fourth" /\ ~hist.lost /\ OppositeEnds /\ ret.op \in Pops) =>
        ret.val = aret

\* The pushes and pops used one and the same end since the deque was last
\* emptied through one end.
SameEnd == Cardinality(hist.push \cup hist.pop) <= 1

\* C5: with pushes and pops on the same end, each pop returns the most
\* recently pushed element not yet popped and None once all are popped (LIFO),
\* also when the deque was emptied from one end and is then used from the other.
C5_SameEndLifo ==
    (unit = "fourth" /\ ~hist.lost /\ SameEnd /\ ret.op \in Pops) =>
        /\ ret.val = aret
        /\ Stored = Len(abs)

\* C5's case: a deque emptied from the front, then pushed and popped at the
\* back, elements still stored.
C5_Witness ==
    /\ unit = "fourth" /\ ~hist.lost /\ SameEnd
    /\ "front" \in hist.emptied
    /\ hist.push = {"back"}
    /\ ret = [op |-> "pop_back", val |-> Some(2)]
    /\ abs = <<1>>

\* C6: under any interleaving of push and pop the queue is a FIFO sequence:
\* pop returns and removes the oldest element not yet popped, None exactly
\* when there is none, also after the queue has been emptied.
C6_QueueFifo ==
    unit = "fifth" =>
        /\ ret.op = "pop" => ret.val = aret
        /\ ElemsOf(qheap, QChain) = abs
        /\ ~qub

\* C6's case: a queue that was emptied, refilled with 1 then 2, and popped.
C6_Witness ==
    /\ unit = "fifth"
    /\ "front" \in hist.emptied
    /\ ret = [op |-> "pop", val |-> Some(1)]
    /\ abs = <<2>>

\* C7: a push_front or push_back on an empty deque (head and tail absent)
\* makes the new node both head and tail, its next and prev absent.
C7_PushOnEmpty ==
    [][(unit = "fourth" /\ head = Null /\ tail = Null /\ ret'.op \in Pushes) =>
          /\ head' # Null
          /\ tail' = head'
          /\ ~heap[head'].alloc
          /\ heap'[head'].alloc
          /\ heap'[head'].next = Null
          /\ heap'[head'].prev = Null]_vars

\* No node holds a RefMut together with any other handle.
HandlesExclusive ==
    \A n \in Nodes : muts[n] <= 1 /\ (muts[n] = 1 => refs[n] = 0)

FrontPeeks == {"peek_front", "peek_front_mut"}
Conflict == ret'.val = Panic /\ UNCHANGED <<head, tail, heap, refs, muts, pc>>

\* C8: while a RefMut from peek_front_mut is live, a second peek_front or
\* peek_front_mut panics; so does a peek_front_mut while a Ref is live; the
\* failed call changes nothing; with every handle released a new peek
\* succeeds; and at no time is a RefMut live together with another handle on
\* the same node.
C8_BorrowConflict ==
    /\ [](unit = "fourth" => HandlesExclusive)
    /\ [][(unit = "fourth" /\ head # Null /\ muts[head] > 0 /\ ret'.op \in FrontPeeks)
            => Conflict]_vars
    /\ [][(unit = "fourth" /\ head # Null /\ refs[head] > 0 /\ ret'.op = "peek_front_mut")
            => Conflict]_vars
    /\ [][(unit = "fourth" /\ head # Null /\ NoHandles /\ ret'.op \in FrontPeeks)
            => /\ ret'.val = Some(heap[head].elem)
               /\ refs'[head] + muts'[head] = 1]_vars

\* C8's case: a peek_front_mut has just panicked on a head whose RefMut is live.
C8_Witness ==
    /\ unit = "fourth" /\ head # Null
    /\ muts[head] = 1
    /\ ret = [op |-> "peek_front_mut", val |-> Panic]

TearingDown == pc \in {"dropping", "glue", "dropped"}

\* C9: the teardown of the deque and of the queue is a loop of pops that ends
\* for a list of any length, and no step of it destroys more than one node or
\* destroys a node from inside another node's destruction.
C9_Teardown ==
    /\ [](unit \in {"fourth", "fifth"} /\ TearingDown =>
            destroyed.cnt <= 1 /\ destroyed.depth <= 1)
    /\ (pc = "dropping") ~> (pc = "dropped")

\* C9's case: a teardown that has destroyed a node and has more than one left.
C9_Witness ==
    /\ pc = "dropping"
    /\ destroyed.cnt = 1
    /\ \/ unit = "fourth" /\ Len(Fwd) >= 2 /\ ret.op = "drop"
       \/ unit = "fifth" /\ Len(QChain) >= 2 /\ ret.op = "drop"

\* C10: after the deque is dropped, in whatever state the four operations
\* left it, no node remains allocated.
C10_NoLeak ==
    (unit = "fourth" /\ pc = "dropped") => Stored = 0

\* C11: the queue never dereferences a tail that is null or refers to a freed
\* node: whenever push writes through tail, tail is the still-allocated last
\* node of the chain; a pop that empties the chain nulls tail in the same
\* step, and the push after it installs its node as head.
C11_TailDeref ==
    /\ [](unit = "fifth" => ~qub)
    /\ [][(unit = "fifth" /\ ret'.op = "push" /\ qtail # Null) =>
            /\ qheap[qtail].alloc
            /\ qtail = QChain[Len(QChain)]
            /\ qheap'[qtail].next = qtail'
            /\ qhead' = qhead]_vars
    /\ [][(unit = "fifth" /\ ret'.op \in {"pop", "drop"} /\ qhead' = Null) =>
            qtail' = Null]_vars
    /\ [][(unit = "fifth" /\ ret'.op = "push" /\ qhead = Null) =>
            /\ qhead' # Null
            /\ qhead' = qtail'
            /\ ~qheap[qhead'].alloc]_vars

\* C11's case: the queue was emptied by a pop and a push has installed a new
\* head, at the address of a node freed before.
C11_Witness ==
    /\ unit = "fifth" /\ pc = "live"
    /\ "front" \in hist.emptied
    /\ ret.op = "push"
    /\ qhead # Null /\ qhead = qtail

\* C12: a deque built by pushes and consumed through into_iter yields, under
\* every interleaving of next and next_back, what the sequence of the pushes
\* yields from its front and from its back: every element once, and None from
\* both ends once none is left.
C12_IntoIter ==
    (unit = "fourth" /\ pc = "iter" /\ ~hist.lost /\ ret.op \in {"next", "next_back"}) =>
        ret.val = aret

BackPeeks == {"peek_back", "peek_back_mut"}

\* A peek at the end whose boundary node is n: it answers None exactly when no
\* element is stored, answers the element the calls so far put at that end,
\* and changes nothing but the borrow flag of a node.
PeekStep(ops, n, i) ==
    (unit = "fourth" /\ ret'.op \in ops) =>
        /\ (ret'.val = None) <=> (Stored = 0)
        /\ (~hist.lost /\ ~Departed /\ abs # <<>> /\ ret'.val # Panic) =>
               ret'.val = Some(abs[i])
        /\ (n # Null /\ ret'.val # Panic) => ret'.val = Some(heap[n].elem)
        /\ UNCHANGED <<head, tail>>
        /\ \A m \in Nodes : heap'[m] = [heap[m] EXCEPT !.borrow = heap'[m].borrow]

\* C13: peek_front and peek_back (and their _mut forms) give the first and
\* the last stored element without removing it, None exactly when nothing is
\* stored, and leave sequence and links alone; a value written through a
\* RefMut replaces exactly the element of that boundary node, and it is what
\* the pop at that end returns afterwards.
C13_Peeks ==
    /\ [][PeekStep(FrontPeeks, head, 1)]_vars
    /\ [][PeekStep(BackPeeks, tail, Len(abs))]_vars
    /\ [][(unit = "fourth" /\ ret'.op = "write") =>
            /\ \E n \in {head, tail} \ {Null} :
                  heap' = [heap EXCEPT ![n].elem = ret'.val.val]
            /\ UNCHANGED <<head, tail>>]_vars
    /\ [][(unit = "fourth" /\ ret'.op = "pop_front" /\ head # Null) =>
            ret'.val = Some(heap[head].elem)]_vars
    /\ [][(unit = "fourth" /\ ret'.op = "pop_back" /\ tail # Null) =>
            ret'.val = Some(heap[tail].elem)]_vars

\* C14: peek of the queue returns the head value, which is what the next pop
\* would return, and None on the empty queue, and changes neither head, tail
\* nor any node; a write through peek_mut changes the value of the head node
\* only, the pop after it returns the written value, and order and tail stay.
C14_QueuePeek ==
    /\ [](unit = "fifth" /\ ret.op \in {"peek", "peek_mut"} =>
            /\ ret.val = aret
            /\ ElemsOf(qheap, QChain) = abs
            /\ ~qub)
    /\ [][(unit = "fifth" /\ ret'.op = "peek") =>
            /\ ret'.val = QPopOp(qheap, qhead, qtail).val
            /\ (ret'.val = None) <=> (QStored = 0)
            /\ UNCHANGED <<qhead, qtail, qheap>>]_vars
    /\ [][(unit = "fifth" /\ ret'.op = "peek_mut") =>
            /\ ret'.val = QPopOp(qheap, qhead, qtail).val
            /\ UNCHANGED <<qhead, qtail>>
            /\ QChain' = QChain
            /\ \A n \in Nodes \ {qhead} : qheap'[n] = qheap[n]
            /\ qhead # Null => qheap'[qhead] = [qheap[qhead] EXCEPT !.elem = abs'[1]]]_vars
    /\ [][(unit = "fifth" /\ ret.op = "peek_mut" /\ ret'.op = "pop" /\ abs # <<>>) =>
            ret'.val = Some(abs[1])]_vars

\* C14's case: peek_mut found 1 at the head of a queue of two and 2 was
\* written over it.
C14_Witness ==
    /\ unit = "fifth"
    /\ ret = [op |-> "peek_mut", val |-> Some(1)]
    /\ abs = <<2, 1>>
    /\ qhead # qtail

IterSteps == {"iter_next", "iter_mut_next"}

\* C15: iter yields the stored elements of the queue from head to tail in
\* push order and then None, and modifies nothing; into_iter yields what
\* repeated pop yields; iter_mut visits the same elements in the same order
\* and changes values only, so that the stored values stay the sequence of
\* the pushes with the updates applied in place, which a later iter yields.
C15_QueueIter ==
    /\ [](unit = "fifth" /\ ret.op \in IterSteps \cup {"next"} =>
            /\ ret.val = aret
            /\ ElemsOf(qheap, QChain) = abs
            /\ ~qub)
    /\ [](unit = "fifth" /\ qit # NoIter =>
            /\ qit.idx <= Len(QChain)
            /\ qit.next = IF qit.idx < Len(QChain) THEN QChain[qit.idx + 1] ELSE Null)
    /\ [][(unit = "fifth" /\ ret'.op = "iter_next") =>
            UNCHANGED <<qhead, qtail, qheap>>]_vars
    /\ [][(unit = "fifth" /\ ret'.op = "iter_mut_next") =>
            /\ UNCHANGED <<qhead, qtail>>
            /\ QChain' = QChain
            /\ \A n \in Nodes \ {qit.next} : qheap'[n] = qheap[n]]_vars
    /\ [][(unit = "fifth" /\ ret'.op = "next") =>
            ret'.val = QPopOp(qheap, qhead, qtail).val]_vars

\* C15's case: an iter over the queue of 1 then 2 has yielded 1 and now 2, its
\* last element.
C15_Witness ==
    /\ unit = "fifth"
    /\ qit = [kind |-> "iter", next |-> Null, idx |-> 2]
    /\ ret = [op |-> "iter_next", val |-> Some(2)]
    /\ abs = <<1, 2>>

SChain == Walk(sheap, shead, "next", MaxNodes + 1)
SValues == [i \in 1..Len(SChain) |-> sheap[SChain[i]].value]
SStored == Cardinality({n \in Nodes : sheap[n].alloc})

\* C16: under any interleaving of push_front and pop_front the stack is LIFO:
\* pop_front returns and removes the most recently pushed element not yet
\* popped, None on the empty stack; peek returns the value the next pop_front
\* would return and changes nothing; into_iter's next yields what pop_front
\* yields.
C16_StackLifo ==
    /\ [](unit = "main" /\ pc \in {"live", "iter"} =>
            /\ ret.op \in {"pop_front", "peek", "next"} => ret.val = aret
            /\ SValues = abs
            /\ SStored = Len(abs))
    /\ [][(unit = "main" /\ ret'.op = "peek") =>
            /\ ret'.val = SPopFrontOp(sheap, shead).val
            /\ UNCHANGED <<shead, sheap>>]_vars
    /\ [][(unit = "main" /\ ret'.op = "next") =>
            /\ ret'.val = SPopFrontOp(sheap, shead).val
            /\ shead' = SPopFrontOp(sheap, shead).head]_vars

\* C16's case: 1 then 2 were pushed, a pop has returned 2 and left 1.
C16_Witness ==
    /\ unit = "main"
    /\ ret = [op |-> "pop_front", val |-> Some(2)]
    /\ abs = <<1>>
    /\ hist.emptied = {}

\* The values of the list that starts at node hd of heap h.
PValues(h, hd) ==
    LET c == Walk(h, hd, "next", MaxNodes + 1)
    IN [i \in 1..Len(c) |-> h[c[i]].value]

PElems(l) == PValues(pheap, plists[l].head)

\* Every List but the one in slot k is what it was, with the elements it had.
POthers(k) ==
    \A j \in Lists \ {k} :
        /\ plists'[j] = plists[j]
        /\ plists[j].live => PValues(pheap', plists[j].head) = PElems(j)

\* The owners of node n: the live Lists that start at it and the allocated
\* nodes whose next it is.
POwners(n) ==
    Cardinality({j \in Lists : plists[j].live /\ plists[j].head = n})
        + Cardinality({m \in Nodes : pheap[m].alloc /\ pheap[m].next = n})

\* C17: prepend and tail return new lists and leave the list they are called
\* on, and every other list, with its elements: prepend(l, x).head() is x,
\* prepend(l, x).tail() has the elements of l, tail gives the elements after
\* the first, head of the empty list is None and its tail is empty. The nodes
\* the lists share are counted once per owner, so that dropping one list takes
\* nothing from another.
C17_Persistent ==
    /\ [](unit = "third" =>
            \A n \in Nodes :
                /\ pheap[n].alloc <=> POwners(n) > 0
                /\ pheap[n].strong = POwners(n))
    /\ [][(unit = "third" /\ ret'.op = "prepend") =>
            LET c == pcall'
                new == plists'[c.out].head
                t == PTailOp(pheap', new)
            IN /\ PValues(pheap', new) = <<c.elem>> \o PElems(c.recv)
               /\ PHeadOp(pheap', new).val = Some(c.elem)
               /\ PValues(t.h, t.head) = PElems(c.recv)
               /\ POthers(c.out)]_vars
    /\ [][(unit = "third" /\ ret'.op = "tail") =>
            LET c == pcall'
            IN /\ PValues(pheap', plists'[c.out].head) =
                     IF PElems(c.recv) = <<>> THEN <<>> ELSE Tail(PElems(c.recv))
               /\ POthers(c.out)]_vars
    /\ [][(unit = "third" /\ ret'.op = "head") =>
            /\ ret'.val = IF PElems(pcall'.recv) = <<>> THEN None
                          ELSE Some(PElems(pcall'.recv)[1])
            /\ UNCHANGED <<plists, pheap>>]_vars
    /\ [][(unit = "third" /\ ret'.op = "drop") => POthers(pcall'.recv)]_vars

\* C17's case: the tail of a list 2, 1 has been taken; it is 1 and shares its
\* node with the list the 2 was prepended to.
C17_Witness ==
    /\ unit = "third"
    /\ ret.op = "tail"
    /\ PElems(pcall.recv) = <<2, 1>>
    /\ PElems(pcall.out) = <<1>>
    /\ \E j \in Lists \ {pcall.recv, pcall.out} :
          /\ plists[j].live
          /\ plists[j].head = plists[pcall.out].head
          /\ pheap[plists[j].head].strong = 3

\* The chain a node of the deque lies on: from n back along prev to a node
\* without prev, and from there along next.
ChainOf(n) ==
    LET back == Walk(heap, n, "prev", MaxNodes + 1)
    IN Walk(heap, back[Len(back)], "next", MaxNodes + 1)

\* C18: in every state of the deque the next and prev links of the live nodes
\* mirror each other: if n.next is m then m is live and m.prev is n, if n.prev
\* is p then p is live and p.next is n; and a node lacks next (prev) exactly
\* when it is the last (first) node of the chain it lies on, which is finite.
C18_LinksMirror ==
    unit = "fourth" =>
        \A n \in Nodes : heap[n].alloc =>
            /\ heap[n].next # Null =>
                  heap[heap[n].next].alloc /\ heap[heap[n].next].prev = n
            /\ heap[n].prev # Null =>
                  heap[heap[n].prev].alloc /\ heap[heap[n].prev].next = n
            /\ Len(ChainOf(n)) <= MaxNodes
            /\ \E i \in 1..Len(ChainOf(n)) : ChainOf(n)[i] = n
            /\ (heap[n].next = Null) <=> (n = ChainOf(n)[Len(ChainOf(n))])
            /\ (heap[n].prev = Null) <=> (n = ChainOf(n)[1])

\* C18's case: three live nodes in one chain, built from both ends after a
\* pop, the middle one with both links.
C18_Witness ==
    /\ unit = "fourth" /\ pc = "live"
    /\ Len(Fwd) = 3
    /\ Fwd = Reverse(Bwd)
    /\ hist.push = {"front", "back"} /\ hist.pop # {}
    /\ ret.op \in Pushes

\* The owners of node n of the deque: the list handles and the links that
\* hold an Rc to it.
Owners(n) ==
    (IF head = n THEN 1 ELSE 0) + (IF tail = n THEN 1 ELSE 0)
        + Cardinality({m \in Nodes : heap[m].alloc /\ heap[m].next = n})
        + Cardinality({m \in Nodes : heap[m].alloc /\ heap[m].prev = n})

FrontPops == {"pop_front", "next", "drop"}
BackPops == {"pop_back", "next_back"}

\* The node a pop finds at its end is returned and freed in that step.
Unwrapped(n) ==
    n # Null =>
        /\ ret'.val = Some(heap[n].elem)
        /\ ~heap'[n].alloc
        /\ destroyed'.cnt = 1

\* C19: each node of the deque has as many owners as handles and links refer
\* to it, and a pop releases all of them but one before Rc::try_unwrap, so
\* that pop_front and pop_back (also as next, next_back and in the drop loop)
\* never panic and the node they remove is freed in the same call.
C19_UniqueOwner ==
    /\ [](unit = "fourth" => \A n \in Nodes : heap[n].strong = Owners(n))
    /\ [](unit = "fourth" /\ ret.op \in FrontPops \cup BackPops => ret.val # Panic)
    /\ [][(unit = "fourth" /\ pc # "glue" /\ ret'.op \in FrontPops) => Unwrapped(head)]_vars
    /\ [][(unit = "fourth" /\ ret'.op \in BackPops) => Unwrapped(tail)]_vars

\* C19's case: a pop_front has taken the head of a deque of three nodes out
\* of its neighbour's prev and out of the head handle.
C19_Witness ==
    /\ unit = "fourth"
    /\ ret.op = "pop_front" /\ ret.val.tag = "some"
    /\ destroyed.cnt = 1
    /\ Len(Fwd) = 2
    /\ heap[head].prev = Null
    /\ heap[head].strong = 2

\* The nodes of the queue that head or tail can reach.
QReach == {QChain[i] : i \in 1..Len(QChain)} \cup ({qtail} \ {Null})

\* C20: a node of the queue is allocated by one push and freed once: by the
\* pop (or IntoIter's next) that returns its value or by a turn of the drop
\* loop, one node per turn, always the head, which is unreachable afterwards;
\* no freed node is freed again or reachable from head or tail; what is
\* allocated is what the chain holds; once the queue is dropped nothing is
\* allocated.
C20_QueueFrees ==
    /\ [](unit = "fifth" =>
            /\ ~qub
            /\ \A n \in QReach : qheap[n].alloc
            /\ {n \in Nodes : qheap[n].alloc} = QReach
            /\ Cardinality(QReach) = Len(QChain)
            /\ pc = "dropped" => QStored = 0)
    /\ [][(unit = "fifth" /\ ret'.op = "push") =>
            \E n \in Nodes :
                /\ ~qheap[n].alloc
                /\ {m \in Nodes : qheap'[m].alloc} = {m \in Nodes : qheap[m].alloc} \cup {n}]_vars
    /\ [][(unit = "fifth" /\ ret'.op \in {"pop", "next", "drop"}) =>
            IF qhead = Null
            THEN ret'.val = None /\ qheap' = qheap
            ELSE /\ ret'.val = Some(qheap[qhead].elem)
                 /\ qheap[qhead].alloc
                 /\ {m \in Nodes : qheap'[m].alloc} = {m \in Nodes : qheap[m].alloc} \ {qhead}
                 /\ qhead \notin {QChain'[i] : i \in 1..Len(QChain')} \cup {qtail'}]_vars
    /\ [][(unit = "fifth" /\ ret'.op \notin {"push", "pop", "next", "drop"}) =>
            {m \in Nodes : qheap'[m].alloc} = {m \in Nodes : qheap[m].alloc}]_vars

\* C20's case: the queue was emptied by a pop and filled again; a turn of the
\* drop loop has freed the node that held 1, and one node is left to free.
C20_Witness ==
    /\ unit = "fifth" /\ pc = "dropping"
    /\ ret = [op |-> "drop", val |-> Some(1)]
    /\ "front" \in hist.emptied
    /\ QStored = 1
    /\ abs = <<2>>

\* A peek at the end whose boundary node is n answers the element and leaves
\* one more handle on n.
Granted(n) ==
    /\ ret'.val = Some(heap[n].elem)
    /\ refs'[n] + muts'[n] = refs[n] + muts[n] + 1

\* C21: peek handles of the deque conflict only on one and the same node. With
\* two or more elements stored and a RefMut of the front live, peek_back and
\* peek_back_mut succeed on a back node that has no handle; with head and tail
\* the same node, a back peek while the front's RefMut is live panics and
\* changes nothing; a peek_front or peek_back succeeds whatever number of Refs
\* its node has, as long as it has no RefMut.
C21_SameNodeConflict ==
    /\ [][(unit = "fourth" /\ Stored >= 2 /\ head # Null /\ muts[head] > 0
             /\ ret'.op \in BackPeeks) =>
            /\ tail # Null /\ tail # head
            /\ (refs[tail] = 0 /\ muts[tail] = 0) => Granted(tail)]_vars
    /\ [][(unit = "fourth" /\ head # Null /\ head = tail /\ muts[head] > 0
             /\ ret'.op \in BackPeeks) => Conflict]_vars
    /\ [][(unit = "fourth" /\ head # Null /\ muts[head] = 0 /\ ret'.op = "peek_front")
            => Granted(head) /\ refs'[head] = refs[head] + 1]_vars
    /\ [][(unit = "fourth" /\ tail # Null /\ muts[tail] = 0 /\ ret'.op = "peek_back")
            => Granted(tail) /\ refs'[tail] = refs[tail] + 1]_vars

====
